---- MODULE Spec2Model ----
(***************************************************************************)
(* A model of the MoEngage documentation scraper notebook                  *)
(* (src/full_logic.ipynb).  The notebook has four cells:                   *)
(*   1. debug_all_links: opens the help-center home page in a browser and  *)
(*      collects the href of every anchor, then writes extracted_links.csv *)
(*   2. the filter: reads extracted_links.csv, keeps the rows whose URL    *)
(*      starts with an allowed prefix, writes filtered_article_links.csv   *)
(*   3. scrape_single_article: prints the title and the body text          *)
(*   4. scrape_article_with_sections: walks the body's direct children     *)
(*      and prints one section per h2 heading that has content             *)
(* A behaviour of the model is one run of cells 1+2, of cell 3 or of       *)
(* cell 4; the variable fn says which.  Python strings are TLA+ strings    *)
(* (TLC treats them as sequences of one-character strings); Python's None  *)
(* is the empty tuple and a present value s is the one-element tuple <<s>>.*)
(***************************************************************************)
EXTENDS Integers, Sequences, FiniteSets, TLC

VARIABLES
    fn,               \* the coroutine this run executes
    pc,               \* position in the cell's code
    dom,              \* the rendered page: anchors, title element, body element
    browser,          \* "none" | "open" | "closed": the launched chromium
    exc,              \* "none" | "raised": an exception is propagating
    exc_at,           \* where the propagating exception was raised ("" if none)
    links_i,          \* debug_all_links: number of anchors already visited
    all_hrefs,        \* debug_all_links: the collected hrefs
    extracted_csv,    \* content of extracted_links.csv (None until written)
    filtered_csv,     \* content of filtered_article_links.csv (None until written)
    rows,             \* the URL column the DictReader yields
    rows_i,           \* filter: number of rows already read
    filtered_links,   \* filter: the kept URLs
    title_el,         \* scraper: "unset" | "absent" | "present"
    title,            \* scraper: the title (None until computed)
    body_el,          \* scraper: "unset" | "absent" | "present"
    child_i,          \* scraper: number of body children already visited
    img_i,            \* scraper: number of imgs of the child already visited
    current_section,  \* scraper: heading of the section being accumulated
    section_content,  \* scraper: text accumulated for the current section
    sections,         \* scraper: the sections printed so far
    stdout            \* the other lines printed so far

vars == <<fn, pc, dom, browser, exc, exc_at, links_i, all_hrefs, extracted_csv,
          filtered_csv, rows, rows_i, filtered_links, title_el, title, body_el,
          child_i, img_i, current_section, section_content, sections, stdout>>

linkVars == <<links_i, all_hrefs>>
fileVars == <<extracted_csv, filtered_csv, rows, rows_i, filtered_links>>
scrapeVars == <<title_el, title, body_el, child_i, img_i, current_section,
                section_content, sections>>

--------------------------------------------------------------------------
(* Bounds of the model *)

MaxAnchors == 3
MaxChildren == 4

--------------------------------------------------------------------------
(* Python values and string methods *)

None == <<>>
Some(s) == <<s>>
Val(o) == o[1]

\* the truth value Python gives an optional str: None and the empty str
\* are false
Truthy(o) == o # None /\ Len(Val(o)) # 0

Char(s, i) == SubSeq(s, i, i)

\* a variant that compares with the prefix less its last character
StartsWith_NoSlash(url, prefix) ==
    /\ Len(url) >= Len(prefix) - 1
    /\ SubSeq(url, 1, Len(prefix) - 1) = SubSeq(prefix, 1, Len(prefix) - 1)

\* str.startswith
StartsWith(url, prefix) ==
    /\ Len(url) >= Len(prefix)
    /\ SubSeq(url, 1, Len(prefix)) = prefix

\* The strs of the section scraper (the inner text and the img src of a
\* child of the body, the heading and the content of a section) are
\* sequences of code points, as a Python str is: their white space is tested
\* and goes beyond the ASCII characters.  Codes gives the code points of an
\* ASCII literal of the notebook.
Printable32 == " !\"#$%&'()*+,-./0123456789:;<=>?@ABCDEFGHIJKLMNOPQRSTUVWXYZ[\\]^_"
Printable97 == "abcdefghijklmnopqrstuvwxyz{|}~"

\* ord(c) of an ASCII character (no literal of the notebook holds the
\* grave accent, 96, or a control character other than these four)
Ord(c) ==
    IF c = "\t" THEN 9 ELSE IF c = "\n" THEN 10 ELSE IF c = "\f" THEN 12
    ELSE IF c = "\r" THEN 13
    ELSE IF \E i \in 1..Len(Printable32) : Char(Printable32, i) = c
    THEN 31 + (CHOOSE i \in 1..Len(Printable32) : Char(Printable32, i) = c)
    ELSE 96 + (CHOOSE i \in 1..Len(Printable97) : Char(Printable97, i) = c)

Codes(s) == [i \in 1..Len(s) |-> Ord(Char(s, i))]

\* the code points for which str.isspace is true, which are those str.strip
\* removes: \t \n \x0b \f \r, \x1c to \x1f, the space, \x85, \xa0, \u1680,
\* \u2000 to \u200a, \u2028, \u2029, \u202f, \u205f and \u3000
WhiteSpace ==
    {9, 10, 11, 12, 13, 28, 29, 30, 31, 32, 133, 160, 5760} \cup (8192..8202)
        \cup {8232, 8233, 8239, 8287, 12288}

IsSpace(c) == c \in WhiteSpace

\* str.strip: what lies between the first and the last non-space character
Strip(s) ==
    LET keep == {i \in 1..Len(s) : ~IsSpace(s[i])}
    IN  IF keep = {} THEN <<>>
        ELSE SubSeq(s, CHOOSE i \in keep : \A j \in keep : i <= j,
                       CHOOSE i \in keep : \A j \in keep : j <= i)

--------------------------------------------------------------------------
(* The csv module, as the notebook uses it: csv.writer on a file opened    *)
(* with newline='' and csv.DictReader on a file opened in text mode.       *)
(* The loops over the characters of a string split the string in halves,   *)
(* which keeps the evaluation shallow; the order of the characters is kept.*)

\* csv.writer quotes a field holding the delimiter, the quote character or
\* a character of the line terminator
NeedsQuote(s) == \E i \in 1..Len(s) : Char(s, i) \in {",", "\"", "\r", "\n"}

\* inside a quoted field the quote character is doubled
RECURSIVE DoubleQuotes(_, _, _)
DoubleQuotes(s, lo, hi) ==
    IF lo > hi THEN ""
    ELSE IF lo = hi THEN (IF Char(s, lo) = "\"" THEN "\"\"" ELSE Char(s, lo))
    ELSE LET mid == (lo + hi) \div 2
         IN  DoubleQuotes(s, lo, mid) \o DoubleQuotes(s, mid + 1, hi)

\* writer.writerow([field])
WriteRow(field) ==
    (IF field = "" \/ NeedsQuote(field)
        THEN "\"" \o DoubleQuotes(field, 1, Len(field)) \o "\""
        ELSE field) \o "\r\n"

RECURSIVE WriteRows(_)
WriteRows(fields) ==
    IF fields = <<>> THEN ""
    ELSE WriteRow(Head(fields)) \o WriteRows(Tail(fields))

\* the file the two writing loops produce: the header row, then one row per link
WriteCsv(links) == WriteRow("URL") \o WriteRows(links)

\* what character i of a file is read as
NewlineAt(s, i) ==
    IF Char(s, i) = "\r" THEN "\n"
    ELSE IF Char(s, i) = "\n" /\ i > 1 /\ Char(s, i - 1) = "\r" THEN ""
    ELSE Char(s, i)

RECURSIVE TranslateNewlines(_, _, _)
TranslateNewlines(s, lo, hi) ==
    IF lo > hi THEN ""
    ELSE IF lo = hi THEN NewlineAt(s, lo)
    ELSE LET mid == (lo + hi) \div 2
         IN  TranslateNewlines(s, lo, mid) \o TranslateNewlines(s, mid + 1, hi)

\* open(..., mode='r') without newline='': "\r\n" and "\r" are read as "\n"
UniversalNewlines(s) == TranslateNewlines(s, 1, Len(s))

\* the state of csv.reader: st is the parser state, field and row what is
\* read of the current field and record, acc the finished records
Parser(st, field, row, acc) == [st |-> st, field |-> field, row |-> row, acc |-> acc]

EndField(p) == Parser("start_field", "", Append(p.row, p.field), p.acc)
EndRecord(p) == Parser("start_record", "", <<>>, Append(p.acc, Append(p.row, p.field)))

\* csv.reader on one character
ParseChar(p, c) ==
    CASE p.st = "start_record" ->
             IF c = "\n" THEN Parser("start_record", "", <<>>, Append(p.acc, <<>>))
             ELSE IF c = "\"" THEN Parser("in_quoted", "", p.row, p.acc)
             ELSE IF c = "," THEN EndField(p)
             ELSE Parser("in_field", c, p.row, p.acc)
      [] p.st = "start_field" ->
             IF c = "\n" THEN EndRecord(p)
             ELSE IF c = "\"" THEN Parser("in_quoted", "", p.row, p.acc)
             ELSE IF c = "," THEN EndField(p)
             ELSE Parser("in_field", c, p.row, p.acc)
      [] p.st = "in_field" ->
             IF c = "\n" THEN EndRecord(p)
             ELSE IF c = "," THEN EndField(p)
             ELSE Parser("in_field", p.field \o c, p.row, p.acc)
      [] p.st = "in_quoted" ->
             IF c = "\"" THEN Parser("quote_in_quoted", p.field, p.row, p.acc)
             ELSE Parser("in_quoted", p.field \o c, p.row, p.acc)
      [] p.st = "quote_in_quoted" ->
             IF c = "\"" THEN Parser("in_quoted", p.field \o c, p.row, p.acc)
             ELSE IF c = "\n" THEN EndRecord(p)
             ELSE IF c = "," THEN EndField(p)
             ELSE Parser("in_field", p.field \o c, p.row, p.acc)

ParserStates == {"start_record", "start_field", "in_field", "in_quoted", "quote_in_quoted"}

\* csv.reader on the characters lo..hi of s, in order: the first half is
\* read (the test on its state has it evaluated), then the second half
RECURSIVE ParseChars(_, _, _, _)
ParseChars(p, s, lo, hi) ==
    IF lo > hi THEN p
    ELSE IF lo = hi THEN ParseChar(p, Char(s, lo))
    ELSE LET mid == (lo + hi) \div 2
             left == ParseChars(p, s, lo, mid)
         IN  IF left.st \in ParserStates THEN ParseChars(left, s, mid + 1, hi) ELSE left

\* list(csv.reader(text)): at the end of the text an unfinished record ends
ParseCsv(text) ==
    LET p == ParseChars(Parser("start_record", "", <<>>, <<>>), text, 1, Len(text))
    IN  IF p.st = "start_record" THEN p.acc ELSE EndRecord(p).acc

\* the last position of x in seq[1..i], 0 if there is none
RECURSIVE LastIndexOf(_, _, _)
LastIndexOf(seq, x, i) ==
    IF i = 0 THEN 0
    ELSE IF seq[i] = x THEN i
    ELSE LastIndexOf(seq, x, i - 1)

\* row[key] of each row of a DictReader: the first record gives the field
\* names, empty records are skipped, the row is dict(zip(fieldnames, record))
\* with None for the field names the record is too short for, so that the
\* last field of that name decides.  None also stands for the KeyError of
\* a key that is no field name: the filter raises on either.
RECURSIVE Column(_, _, _)
Column(fieldnames, records, key) ==
    IF records = <<>> THEN <<>>
    ELSE IF Head(records) = <<>> THEN Column(fieldnames, Tail(records), key)
    ELSE LET k == LastIndexOf(fieldnames, key, Len(fieldnames))
             v == IF k = 0 \/ k > Len(Head(records)) THEN None
                  ELSE Some(Head(records)[k])
         IN  <<v>> \o Column(fieldnames, Tail(records), key)

\* [row['URL'] for row in csv.DictReader(infile)]
ReadCsv(file) ==
    LET records == ParseCsv(UniversalNewlines(file))
    IN  IF records = <<>> THEN <<>>
        ELSE Column(Head(records), Tail(records), "URL")

--------------------------------------------------------------------------
(* Constants of the notebook *)

BASE_URL == "https://help.moengage.com"

test_url ==
    "https://help.moengage.com/hc/en-us/articles/32664799340564-Artificial-Intelligence-Resolution-Agent-AIRA"

allowed_prefixes == <<
    "https://help.moengage.com/hc/en-us/articles/",
    "https://developers.moengage.com/hc/en-us/articles/",
    "https://partners.moengage.com/hc/en-us/articles/" >>

IntroLabel == Codes("Intro (before first H2)")
NoTitle == "[No Title Found]"
NoBody == "[No Body Found]"

--------------------------------------------------------------------------
(* The pages the model is run on *)

\* the href attribute of an anchor: absent, empty, or a link
AnchorAttrs == {
    None,
    Some(""),
    Some("/relative"),
    Some("https://help.moengage.com/hc/en-us/articles/123-X"),
    Some("https://developers.moengage.com/hc/en-us/articles/1,2"),
    Some("https://partners.moengage.com/hc/en-us/articles/a\rb"),
    Some("https://help.moengage.com/hc/en-us/articles"),
    Some("http://help.moengage.com/hc/en-us/articles/123-X") }

\* a direct child of the body: its tag, its inner text, the src attribute of
\* each img inside it
Child(tag, text, imgs) == [tag |-> tag, text |-> text, imgs |-> imgs]

\* two headings, a text, a paragraph of a no-break space and a newline
\* with an img of empty src, an image alone, and a text that begins with an
\* em space (\u2003) after an img without src
Children == {
    Child("h2", Codes("Setup"), <<>>),
    Child("h2", Codes("FAQ"), <<>>),
    Child("p", Codes("Step1"), <<>>),
    Child("p", <<160, 10>>, <<Some(<<>>)>>),
    Child("div", <<>>, <<Some(Codes("x.png"))>>),
    Child("div", <<8195>> \o Codes("Q1"), <<None, Some(Codes("y.png"))>>) }

SeqsUpTo(S, n) == UNION {[1..k -> S] : k \in 0..n}

Dom(anchors, t, body) == [anchors |-> anchors, title |-> t, body |-> body]
Body(inner_text, children) == [inner_text |-> inner_text, children |-> children]

TitleEls == {None, Some("AIRA")}

--------------------------------------------------------------------------
(* Initial states: the notebook before a cell runs *)

InitCommon ==
    /\ pc = "aenter"
    /\ browser = "none"
    /\ exc = "none"
    /\ exc_at = ""
    /\ links_i = 0
    /\ all_hrefs = <<>>
    /\ extracted_csv = None
    /\ filtered_csv = None
    /\ rows = <<>>
    /\ rows_i = 0
    /\ filtered_links = <<>>
    /\ title_el = "unset"
    /\ title = None
    /\ body_el = "unset"
    /\ child_i = 0
    /\ img_i = 0
    /\ current_section = <<>>
    /\ section_content = <<>>
    /\ sections = <<>>
    /\ stdout = <<>>

InitLinks ==
    /\ fn = "debug_all_links"
    /\ \E anchors \in SeqsUpTo(AnchorAttrs, MaxAnchors) : dom = Dom(anchors, None, None)
    /\ InitCommon

InitSingle ==
    /\ fn = "scrape_single_article"
    /\ \E t \in TitleEls, b \in {None, Some(Body("", <<>>)), Some(Body("Body", <<>>))} :
           dom = Dom(<<>>, t, b)
    /\ InitCommon

InitSections ==
    /\ fn = "scrape_article_with_sections"
    /\ \E t \in TitleEls :
         \/ dom = Dom(<<>>, t, None)
         \/ \E cs \in SeqsUpTo(Children, MaxChildren) : dom = Dom(<<>>, t, Some(Body("", cs)))
    /\ InitCommon

\* files named extracted_links.csv that cell 1 did not write: two columns
\* named URL and an empty line, a row shorter than the header, no URL column
InputFiles == {
    "URL,URL\nhttps://help.moengage.com/hc/en-us/articles/1,/relative\n\n"
        \o "/relative,https://developers.moengage.com/hc/en-us/articles/2\n",
    "Title,URL\nA,https://help.moengage.com/hc/en-us/articles/1\nB\n",
    "Link\n/relative\n" }

\* cell 2 run on its own, on the extracted_links.csv it finds
InitFilter ==
    /\ fn = "filter"
    /\ dom = Dom(<<>>, None, None)
    /\ pc = "read_extracted"
    /\ browser = "none"
    /\ exc = "none"
    /\ exc_at = ""
    /\ links_i = 0
    /\ all_hrefs = <<>>
    /\ \E file \in InputFiles : extracted_csv = Some(file)
    /\ filtered_csv = None
    /\ rows = <<>>
    /\ rows_i = 0
    /\ filtered_links = <<>>
    /\ title_el = "unset"
    /\ title = None
    /\ body_el = "unset"
    /\ child_i = 0
    /\ img_i = 0
    /\ current_section = <<>>
    /\ section_content = <<>>
    /\ sections = <<>>
    /\ stdout = <<>>

Init == InitLinks \/ InitFilter \/ InitSingle \/ InitSections

Scraper == fn \in {"scrape_single_article", "scrape_article_with_sections"}

--------------------------------------------------------------------------
(* The browser session every coroutine opens *)

\* async with async_playwright() as p: the awaited __aenter__ returns
AEnter ==
    /\ pc = "aenter"
    /\ pc' = "launch"
    /\ UNCHANGED <<fn, dom, browser, exc, exc_at, linkVars, fileVars, scrapeVars, stdout>>

\* browser = await p.chromium.launch(...)
Launch ==
    /\ pc = "launch"
    /\ browser' = "open"
    /\ pc' = "new_context"
    /\ UNCHANGED <<fn, dom, exc, exc_at, linkVars, fileVars, scrapeVars, stdout>>

\* context = await browser.new_context(...)
NewContext ==
    /\ pc = "new_context"
    /\ pc' = "new_page"
    /\ UNCHANGED <<fn, dom, browser, exc, exc_at, linkVars, fileVars, scrapeVars, stdout>>

\* page = await context.new_page(); the scrapers then print the url
NewPage ==
    /\ pc = "new_page"
    /\ pc' = "goto"
    /\ stdout' = IF Scraper THEN Append(stdout, "Scraping: " \o test_url) ELSE stdout
    /\ UNCHANGED <<fn, dom, browser, exc, exc_at, linkVars, fileVars, scrapeVars>>

\* await page.goto(...)
Goto ==
    /\ pc = "goto"
    /\ pc' = "wait"
    /\ UNCHANGED <<fn, dom, browser, exc, exc_at, linkVars, fileVars, scrapeVars, stdout>>

\* await page.wait_for_load_state('networkidle')
WaitIdle ==
    /\ pc = "wait"
    /\ pc' = IF Scraper THEN "query_title" ELSE "query_links"
    /\ UNCHANGED <<fn, dom, browser, exc, exc_at, linkVars, fileVars, scrapeVars, stdout>>

\* the positions at which the coroutine is suspended in an await; the
\* first and the last are the __aenter__ and the __aexit__ that async with
\* awaits before and after its body
AwaitPcs == {"aenter", "launch", "new_context", "new_page", "goto", "wait",
             "query_links", "link_loop", "query_title", "title_text", "query_body",
             "body_text", "query_children", "children", "heading_text",
             "block_text", "block_imgs", "img_src", "close", "close_early", "aexit"}

\* a variant in which the exit of async with never stops the driver
StopPlaywright_Nothing(b) == b

\* the exit of async with async_playwright() stops the Playwright driver,
\* and with it the browser it launched
StopPlaywright(b) == IF b = "open" THEN "closed" ELSE b

\* the awaited call raises.  Inside the body of the async with the
\* exception leaves the body, with all that was collected and printed
\* before the await, and the __aexit__ is awaited.  An exception of the
\* __aenter__ ends the cell, the body and the __aexit__ are not run.  An
\* exception of the __aexit__ takes the place of the one in flight, if any,
\* and ends the cell; the exit asks the driver to stop before it first
\* waits, so the raise comes after the stop.
AwaitRaises ==
    /\ pc \in AwaitPcs
    /\ exc' = "raised"
    /\ exc_at' = pc
    /\ pc' = IF pc \in {"aenter", "aexit"} THEN "done" ELSE "aexit"
    /\ browser' = IF pc = "aexit" THEN StopPlaywright(browser) ELSE browser
    /\ UNCHANGED <<fn, dom, linkVars, fileVars, scrapeVars, stdout>>

\* await browser.close() at the end of the coroutine returns
BrowserClose ==
    /\ pc = "close"
    /\ browser' = "closed"
    /\ pc' = "aexit"
    /\ UNCHANGED <<fn, dom, exc, exc_at, linkVars, fileVars, scrapeVars, stdout>>

\* the awaited __aexit__ of async with async_playwright() returns, after a
\* return and after an exception of the body; an exception ends the cell,
\* a return lets the cell go on
AExit ==
    /\ pc = "aexit"
    /\ browser' = StopPlaywright(browser)
    /\ pc' = IF exc = "none" /\ fn = "debug_all_links" THEN "write_extracted" ELSE "done"
    /\ UNCHANGED <<fn, dom, exc, exc_at, linkVars, fileVars, scrapeVars, stdout>>

--------------------------------------------------------------------------
(* Cell 1: debug_all_links, then the writing of extracted_links.csv *)

\* links = await page.query_selector_all('a'); print the count; all_hrefs = []
QueryLinks ==
    /\ pc = "query_links"
    /\ stdout' = Append(stdout, "Total <a> tags found: " \o ToString(Len(dom.anchors)))
    /\ all_hrefs' = <<>>
    /\ links_i' = 0
    /\ pc' = IF Len(dom.anchors) = 0 THEN "close" ELSE "link_loop"
    /\ UNCHANGED <<fn, dom, browser, exc, exc_at, fileVars, scrapeVars>>

\* a variant that tests if href is not None
CollectHref_NotNone(hrefs, href) == IF href # None THEN Append(hrefs, Val(href)) ELSE hrefs

\* if href: all_hrefs.append(href)
CollectHref(hrefs, href) == IF Truthy(href) THEN Append(hrefs, Val(href)) ELSE hrefs

\* one iteration of for link in links
VisitLink ==
    /\ pc = "link_loop"
    /\ links_i < Len(dom.anchors)
    /\ LET href == dom.anchors[links_i + 1] IN
         /\ all_hrefs' = CollectHref(all_hrefs, href)
         /\ stdout' = IF Truthy(href) THEN Append(stdout, Val(href)) ELSE stdout
    /\ links_i' = links_i + 1
    /\ pc' = IF links_i + 1 = Len(dom.anchors) THEN "close" ELSE "link_loop"
    /\ UNCHANGED <<fn, dom, browser, exc, exc_at, fileVars, scrapeVars>>

\* the cell writes the header and one row per href, and prints how many
WriteExtracted ==
    /\ pc = "write_extracted"
    /\ extracted_csv' = Some(WriteCsv(all_hrefs))
    /\ stdout' = Append(stdout, "Saved " \o ToString(Len(all_hrefs))
                                  \o " links to extracted_links.csv")
    /\ pc' = "read_extracted"
    /\ UNCHANGED <<fn, dom, browser, exc, exc_at, linkVars, filtered_csv, rows, rows_i,
                   filtered_links, scrapeVars>>

--------------------------------------------------------------------------
(* Cell 2: the filter *)

\* any(url.startswith(prefix) for prefix in allowed_prefixes)
Allowed(url) == \E k \in 1..Len(allowed_prefixes) : StartsWith(url, allowed_prefixes[k])

\* a variant that keeps the path of the link, without the base URL
AppendIfAllowed_Path(links, url) ==
    IF Allowed(url) THEN Append(links, SubSeq(url, Len(BASE_URL) + 1, Len(url))) ELSE links

\* if any(...): filtered_links.append(url)
AppendIfAllowed(links, url) == IF Allowed(url) THEN Append(links, url) ELSE links

\* the loop over the rows of the reader, from filtered_links = []
RECURSIVE FilterFrom(_, _)
FilterFrom(links, column) ==
    IF column = <<>> THEN links
    ELSE FilterFrom(AppendIfAllowed(links, Val(Head(column))), Tail(column))

FilterLinks(column) == FilterFrom(<<>>, column)

\* filtered_links = []; open the input file; reader = csv.DictReader(infile)
ReadExtracted ==
    /\ pc = "read_extracted"
    /\ rows' = ReadCsv(Val(extracted_csv))
    /\ rows_i' = 0
    /\ filtered_links' = <<>>
    /\ pc' = IF ReadCsv(Val(extracted_csv)) = <<>> THEN "write_filtered" ELSE "filter_loop"
    /\ UNCHANGED <<fn, dom, browser, exc, exc_at, linkVars, extracted_csv, filtered_csv,
                   scrapeVars, stdout>>

\* one iteration of for row in reader; a row without a URL value would make
\* url.startswith raise
FilterRow ==
    /\ pc = "filter_loop"
    /\ rows_i < Len(rows)
    /\ LET url == rows[rows_i + 1] IN
         IF url = None
         THEN /\ exc' = "raised"
              /\ exc_at' = "filter_loop"
              /\ pc' = "done"
              /\ UNCHANGED <<rows_i, filtered_links>>
         ELSE /\ filtered_links' = AppendIfAllowed(filtered_links, Val(url))
              /\ rows_i' = rows_i + 1
              /\ pc' = IF rows_i + 1 = Len(rows) THEN "write_filtered" ELSE "filter_loop"
              /\ exc' = exc
              /\ exc_at' = exc_at
    /\ UNCHANGED <<fn, dom, browser, linkVars, extracted_csv, filtered_csv, rows,
                   scrapeVars, stdout>>

\* the cell writes the header and one row per kept link, and prints how many
WriteFiltered ==
    /\ pc = "write_filtered"
    /\ filtered_csv' = Some(WriteCsv(filtered_links))
    /\ stdout' = Append(stdout, "Saved " \o ToString(Len(filtered_links))
                     \o " filtered article links to filtered_article_links.csv")
    /\ pc' = "done"
    /\ UNCHANGED <<fn, dom, browser, exc, exc_at, linkVars, extracted_csv, rows, rows_i,
                   filtered_links, scrapeVars>>

--------------------------------------------------------------------------
(* Cells 3 and 4: the title, common to both scrapers.  A step runs from    *)
(* the return of one await to the suspension in the next.                  *)

\* title = await title_el.inner_text() if title_el else '[No Title Found]'
TitleOf(el) == IF el # None THEN Val(el) ELSE NoTitle

\* print("\nTitle:"); print(title) in cell 3, one print in cell 4
PrintTitle(out, t) ==
    IF fn = "scrape_single_article" THEN out \o <<"\nTitle:", t>>
    ELSE Append(out, "\nTitle:\n" \o t)

\* title_el = await page.query_selector('h6.article-title') returns; with
\* an element the coroutine awaits its inner text, without one the title
\* is the sentinel and is printed
QueryTitle ==
    /\ pc = "query_title"
    /\ title_el' = IF dom.title = None THEN "absent" ELSE "present"
    /\ IF dom.title = None
       THEN /\ title' = Some(TitleOf(None))
            /\ stdout' = PrintTitle(stdout, TitleOf(None))
            /\ pc' = "query_body"
       ELSE /\ title' = title
            /\ stdout' = stdout
            /\ pc' = "title_text"
    /\ UNCHANGED <<fn, dom, browser, exc, exc_at, linkVars, fileVars, body_el, child_i, img_i,
                   current_section, section_content, sections>>

\* await title_el.inner_text() returns; the title is printed
TitleText ==
    /\ pc = "title_text"
    /\ title' = Some(TitleOf(dom.title))
    /\ stdout' = PrintTitle(stdout, TitleOf(dom.title))
    /\ pc' = "query_body"
    /\ UNCHANGED <<fn, dom, browser, exc, exc_at, linkVars, fileVars, title_el, body_el, child_i,
                   img_i, current_section, section_content, sections>>

--------------------------------------------------------------------------
(* Cell 3: scrape_single_article *)

\* body_text[:500]
First500(s) == SubSeq(s, 1, IF Len(s) < 500 THEN Len(s) ELSE 500)

\* print("\nBody Text (first 500 chars):"); print(body_text[:500])
PrintBody(out, body_text) ==
    out \o <<"\nBody Text (first 500 chars):", First500(body_text)>>

\* body_el = await page.query_selector('div.article__body') returns; with
\* an element the coroutine awaits its inner text, without one the body
\* text is the sentinel and is printed
SingleQueryBody ==
    /\ pc = "query_body"
    /\ fn = "scrape_single_article"
    /\ body_el' = IF dom.body = None THEN "absent" ELSE "present"
    /\ IF dom.body = None
       THEN /\ stdout' = PrintBody(stdout, NoBody)
            /\ pc' = "close"
       ELSE /\ stdout' = stdout
            /\ pc' = "body_text"
    /\ UNCHANGED <<fn, dom, browser, exc, exc_at, linkVars, fileVars, title_el, title, child_i,
                   img_i, current_section, section_content, sections>>

\* await body_el.inner_text() returns; the body text is printed
SingleBodyText ==
    /\ pc = "body_text"
    /\ stdout' = PrintBody(stdout, Val(dom.body).inner_text)
    /\ pc' = "close"
    /\ UNCHANGED <<fn, dom, browser, exc, exc_at, linkVars, fileVars, scrapeVars>>

--------------------------------------------------------------------------
(* Cell 4: scrape_article_with_sections *)

\* a variant without the test
NoBodyEl_Never(el) == FALSE

\* if not body_el
NoBodyEl(el) == el = "absent"

\* body_el = await page.query_selector('div.article__body') returns;
\* without an element the sentinel is printed and the coroutine awaits the
\* early close, with one it awaits the query of the children
QueryBody ==
    /\ pc = "query_body"
    /\ fn = "scrape_article_with_sections"
    /\ LET el == IF dom.body = None THEN "absent" ELSE "present" IN
         /\ body_el' = el
         /\ IF NoBodyEl(el)
            THEN /\ stdout' = Append(stdout, NoBody)
                 /\ pc' = "close_early"
            ELSE /\ stdout' = stdout
                 /\ pc' = "query_children"
    /\ UNCHANGED <<fn, dom, browser, exc, exc_at, linkVars, fileVars, title_el, title, child_i,
                   img_i, current_section, section_content, sections>>

\* await browser.close() returns; return
EarlyClose ==
    /\ pc = "close_early"
    /\ browser' = "closed"
    /\ pc' = "aexit"
    /\ UNCHANGED <<fn, dom, exc, exc_at, linkVars, fileVars, scrapeVars, stdout>>

body_children == IF dom.body = None THEN <<>> ELSE Val(dom.body).children

\* body_children = await body_el.query_selector_all(':scope > *') returns,
\* then the two accumulators are set; on a body_el of None the call raises
QueryChildren ==
    /\ pc = "query_children"
    /\ IF body_el = "present"
       THEN /\ current_section' = IntroLabel
            /\ section_content' = <<>>
            /\ child_i' = 0
            /\ pc' = IF Len(body_children) = 0 THEN "flush" ELSE "children"
            /\ exc' = exc
            /\ exc_at' = exc_at
       ELSE /\ exc' = "raised"
            /\ exc_at' = "query_children"
            /\ pc' = "aexit"
            /\ UNCHANGED <<current_section, section_content, child_i>>
    /\ UNCHANGED <<fn, dom, browser, linkVars, fileVars, title_el, title, body_el, img_i,
                   sections, stdout>>

Section(heading, content) == [heading |-> heading, content |-> content]

\* a variant that prints the section whatever its content
EmitAlways(printed, heading, content) == Append(printed, Section(heading, Strip(content)))

\* if section_content.strip(): print the section
EmitIfContent(printed, heading, content) ==
    IF Strip(content) # <<>> THEN Append(printed, Section(heading, Strip(content)))
    ELSE printed

\* a variant that never empties the content
ResetNever(content) == content

\* ... and, in the loop, section_content = ""
ResetIfContent(content) == IF Strip(content) # <<>> THEN <<>> ELSE content

\* a variant that keeps the heading
NewHeading_Keep(current, heading_text) == current

\* current_section = await child.inner_text()
NewHeading(current, heading_text) == heading_text

\* a variant without the test of the text
AppendText_Always(content, block_text) == content \o block_text \o Codes("\n")

\* if block_text.strip(): section_content += block_text + "\n"
AppendText(content, block_text) ==
    IF Strip(block_text) # <<>> THEN content \o block_text \o Codes("\n") ELSE content

\* if src: section_content += f"[Image: {src}]\n"
AppendImage(content, src) ==
    IF Truthy(src) THEN content \o Codes("[Image: ") \o Val(src) \o Codes("]\n")
    ELSE content

\* the child the loop is at
child == body_children[child_i + 1]

\* where the loop goes after the child: the next child's tag, or the end
NextChildPc == IF child_i + 1 = Len(body_children) THEN "flush" ELSE "children"

\* tag = await child.evaluate(...) returns; on an h2 the section is printed
\* if it has content, and the coroutine awaits the heading's inner text; on
\* another element it awaits the element's inner text
ChildTag ==
    /\ pc = "children"
    /\ child_i < Len(body_children)
    /\ IF child.tag = "h2"
       THEN /\ sections' = EmitIfContent(sections, current_section, section_content)
            /\ section_content' = ResetIfContent(section_content)
            /\ pc' = "heading_text"
       ELSE /\ UNCHANGED <<sections, section_content>>
            /\ pc' = "block_text"
    /\ UNCHANGED <<fn, dom, browser, exc, exc_at, linkVars, fileVars, title_el, title, body_el,
                   child_i, img_i, current_section, stdout>>

\* current_section = await child.inner_text() returns
HeadingText ==
    /\ pc = "heading_text"
    /\ current_section' = NewHeading(current_section, child.text)
    /\ child_i' = child_i + 1
    /\ pc' = NextChildPc
    /\ UNCHANGED <<fn, dom, browser, exc, exc_at, linkVars, fileVars, title_el, title, body_el,
                   img_i, section_content, sections, stdout>>

\* block_text = await child.inner_text() returns; the text is appended
\* and the coroutine awaits the query of the imgs
BlockText ==
    /\ pc = "block_text"
    /\ section_content' = AppendText(section_content, child.text)
    /\ pc' = "block_imgs"
    /\ UNCHANGED <<fn, dom, browser, exc, exc_at, linkVars, fileVars, title_el, title, body_el,
                   child_i, img_i, current_section, sections, stdout>>

\* img_elements = await child.query_selector_all('img') returns
BlockImgs ==
    /\ pc = "block_imgs"
    /\ img_i' = 0
    /\ IF Len(child.imgs) = 0
       THEN /\ child_i' = child_i + 1
            /\ pc' = NextChildPc
       ELSE /\ child_i' = child_i
            /\ pc' = "img_src"
    /\ UNCHANGED <<fn, dom, browser, exc, exc_at, linkVars, fileVars, title_el, title, body_el,
                   current_section, section_content, sections, stdout>>

\* src = await img.get_attribute('src') returns; the image is appended
ImgSrc ==
    /\ pc = "img_src"
    /\ section_content' = AppendImage(section_content, child.imgs[img_i + 1])
    /\ img_i' = img_i + 1
    /\ IF img_i + 1 = Len(child.imgs)
       THEN /\ child_i' = child_i + 1
            /\ pc' = NextChildPc
       ELSE /\ child_i' = child_i
            /\ pc' = "img_src"
    /\ UNCHANGED <<fn, dom, browser, exc, exc_at, linkVars, fileVars, title_el, title, body_el,
                   current_section, sections, stdout>>

\* after the loop: if section_content.strip(): print the last section
Flush ==
    /\ pc = "flush"
    /\ sections' = EmitIfContent(sections, current_section, section_content)
    /\ pc' = "close"
    /\ UNCHANGED <<fn, dom, browser, exc, exc_at, linkVars, fileVars, title_el, title, body_el,
                   child_i, img_i, current_section, section_content, stdout>>

--------------------------------------------------------------------------
(* The specification *)

Next ==
    \/ AEnter
    \/ Launch
    \/ NewContext
    \/ NewPage
    \/ Goto
    \/ WaitIdle
    \/ AwaitRaises
    \/ BrowserClose
    \/ AExit
    \/ QueryLinks
    \/ VisitLink
    \/ WriteExtracted
    \/ ReadExtracted
    \/ FilterRow
    \/ WriteFiltered
    \/ QueryTitle
    \/ TitleText
    \/ SingleQueryBody
    \/ SingleBodyText
    \/ QueryBody
    \/ EarlyClose
    \/ QueryChildren
    \/ ChildTag
    \/ HeadingText
    \/ BlockText
    \/ BlockImgs
    \/ ImgSrc
    \/ Flush

Spec == Init /\ [][Next]_vars

--------------------------------------------------------------------------
(* What the claims speak of, said without the operators of the code *)

\* the filter cell has run to its end
FilterDone == pc = "done" /\ filtered_csv # None

\* url has one of the three allowlisted prefixes as an exact string prefix
HasAllowedPrefix(url) ==
    \E prefix \in {"https://help.moengage.com/hc/en-us/articles/",
                   "https://developers.moengage.com/hc/en-us/articles/",
                   "https://partners.moengage.com/hc/en-us/articles/"} :
        /\ Len(prefix) <= Len(url)
        /\ \A i \in 1..Len(prefix) : Char(url, i) = Char(prefix, i)

Values(column) == [i \in 1..Len(column) |-> Val(column[i])]

\* the href values of the anchors that carry the attribute
HrefsPresent(anchors) == Values(SelectSeq(anchors, LAMBDA a : a # None))

\* the href values of the anchors that carry a non-empty attribute
HrefsNonEmpty(anchors) == Values(SelectSeq(anchors, LAMBDA a : a # None /\ Val(a) # ""))

\* the segmentation loop of scrape_article_with_sections has run to its end
Segmented ==
    /\ fn = "scrape_article_with_sections"
    /\ body_el = "present"
    /\ exc = "none"
    /\ pc \in {"close", "aexit", "done"}

NumChildren == Len(body_children)

\* a section boundary is 0 (the start of the body, labelled by the intro
\* label) or the index of an h2 child (labelled by its text)
H2s == {i \in 1..NumChildren : body_children[i].tag = "h2"}
Boundaries ==
    SelectSeq([k \in 1..NumChildren + 1 |-> k - 1], LAMBDA h : h = 0 \/ h \in H2s)
Label(h) == IF h = 0 THEN IntroLabel ELSE body_children[h].text
H2Texts == [k \in 1..Len(Boundaries) - 1 |-> Label(Boundaries[k + 1])]

\* the children between boundary h and the next h2 (or the end)
NextBoundary(h) ==
    LET later == {i \in H2s : i > h}
    IN  IF later = {} THEN NumChildren + 1
        ELSE CHOOSE i \in later : \A j \in later : i <= j
Segment(h) == SubSeq(body_children, h + 1, NextBoundary(h) - 1)

Text(value) == [kind |-> "text", value |-> value]
ImageRef(src) == [kind |-> "image", value |-> src]

\* the blocks of a child: its text if not blank, then one image reference
\* per img with a non-empty src
Blocks(c) ==
    (IF \E i \in 1..Len(c.text) : c.text[i] \notin WhiteSpace
        THEN <<Text(c.text)>> ELSE <<>>)
    \o LET srcs == SelectSeq(c.imgs, LAMBDA a : a # None /\ Val(a) # <<>>)
       IN  [k \in 1..Len(srcs) |-> ImageRef(Val(srcs[k]))]

RECURSIVE BlocksOf(_)
BlocksOf(children) ==
    IF children = <<>> THEN <<>>
    ELSE Blocks(Head(children)) \o BlocksOf(Tail(children))

\* how the notebook writes a block, and a sequence of blocks
RenderBlock(b) ==
    IF b.kind = "text" THEN b.value \o Codes("\n")
    ELSE Codes("[Image: ") \o b.value \o Codes("]\n")

RECURSIVE Render(_)
Render(blocks) ==
    IF blocks = <<>> THEN <<>> ELSE RenderBlock(Head(blocks)) \o Render(Tail(blocks))

\* the boundaries that have at least one block before the next boundary
Nonempty == SelectSeq(Boundaries, LAMBDA h : BlocksOf(Segment(h)) # <<>>)

ExpectedHeadings == [k \in 1..Len(Nonempty) |-> Label(Nonempty[k])]

\* one section per boundary with blocks: its label and its blocks as
\* written, without the white space around the whole
ExpectedSections ==
    [k \in 1..Len(Nonempty) |->
        Section(Label(Nonempty[k]), Strip(Render(BlocksOf(Segment(Nonempty[k])))))]

Headings(printed) == [k \in 1..Len(printed) |-> printed[k].heading]

RECURSIVE IsSubseq(_, _)
IsSubseq(a, b) ==
    IF a = <<>> THEN TRUE
    ELSE IF b = <<>> THEN FALSE
    ELSE IF Head(a) = Head(b) THEN IsSubseq(Tail(a), Tail(b))
    ELSE IsSubseq(a, Tail(b))

\* a child with blank text and exactly one img, whose src is not empty
ImageOnly(c) ==
    /\ c.tag # "h2"
    /\ \A i \in 1..Len(c.text) : c.text[i] \in WhiteSpace
    /\ Len(c.imgs) = 1
    /\ Truthy(c.imgs[1])

--------------------------------------------------------------------------
(* The claims *)

\* C1: the filter's output contains no duplicate URL: a link that occurs
\* several times in the input appears exactly once in the output.
C1_NoDuplicates ==
    \A i, j \in 1..Len(filtered_links) :
        filtered_links[i] = filtered_links[j] => i = j

\* C2: every URL of the filter's output starts with one of the three
\* allowlisted prefixes, in the list and in the file written from it; on
\* the file written from a list of links the filter raises nothing and
\* writes its output; an input with only non-matching links gives an empty
\* list and a file with the header alone.
C2_OnlyAllowedPrefixes ==
    /\ \A i \in 1..Len(filtered_links) : HasAllowedPrefix(filtered_links[i])
    /\ fn = "debug_all_links" /\ pc \in {"read_extracted", "filter_loop", "write_filtered"}
          => exc = "none"
    /\ fn = "debug_all_links" /\ pc = "done" /\ exc = "none" => filtered_csv # None
    /\ FilterDone =>
         /\ exc = "none"
         /\ \A i \in 1..Len(ReadCsv(Val(filtered_csv))) :
                HasAllowedPrefix(Val(ReadCsv(Val(filtered_csv))[i]))
         /\ (\A i \in 1..Len(rows) : ~HasAllowedPrefix(Val(rows[i])))
                => filtered_links = <<>> /\ Val(filtered_csv) = "URL\r\n"

\* C2 witness: the filter ran on a near miss of a prefix and on an article
\* link, and kept only the article link.
C2_Witness ==
    /\ FilterDone
    /\ Values(rows) = <<"https://help.moengage.com/hc/en-us/articles",
                        "https://help.moengage.com/hc/en-us/articles/123-X">>
    /\ filtered_links = <<"https://help.moengage.com/hc/en-us/articles/123-X">>

\* C3: a section is printed for the intro label or for an h2 if and only if
\* a block was accumulated between that boundary and the next: the headings
\* printed are those of the boundaries with blocks, and no printed section
\* has empty content.
C3_NoEmptySection ==
    /\ \A k \in 1..Len(sections) : sections[k].content # <<>>
    /\ Segmented => Headings(sections) = ExpectedHeadings

\* C3 witness: an h2 first (no intro), followed at once by another h2 (no
\* section for the first), followed by a text and by a paragraph of a
\* no-break space and a newline, which is white space alone.
C3_Witness ==
    /\ Segmented
    /\ NumChildren = 4
    /\ body_children[1].tag = "h2"
    /\ body_children[2].tag = "h2"
    /\ body_children[3].text = Codes("Step1")
    /\ body_children[4].text = <<160, 10>>
    /\ sections = <<Section(body_children[2].text, Codes("Step1"))>>

\* C4: the headings of the printed sections, after an optional leading
\* intro section, form a subsequence of the h2 headings in document order.
C4_HeadingOrder ==
    fn = "scrape_article_with_sections" =>
        LET hs == Headings(sections) IN
            \/ IsSubseq(hs, H2Texts)
            \/ hs # <<>> /\ hs[1] = IntroLabel /\ IsSubseq(Tail(hs), H2Texts)

\* C4 witness: two h2 headings with content each: two sections, in order.
C4_Witness ==
    /\ Segmented
    /\ H2Texts = <<Codes("FAQ"), Codes("Setup")>>
    /\ Headings(sections) = <<Codes("FAQ"), Codes("Setup")>>

\* C5: without a body element the coroutine raises nothing of its own: it
\* prints no section, prints the no-body line (which a run with a body
\* never prints), and never reaches the query of the children or the loop,
\* where the missing element would raise; it awaits the closing of the
\* browser and returns.  The only exceptions of such a run are failures of
\* the two Playwright calls awaited after the test, browser.close() and the
\* exit of the async with; with neither the run ends without exception.
C5_MissingBody ==
    fn = "scrape_article_with_sections" =>
        /\ body_el = "absent" =>
             /\ sections = <<>>
             /\ pc \in {"close_early", "aexit", "done"}
             /\ \E k \in 1..Len(stdout) : stdout[k] = NoBody
             /\ exc = "raised" <=> exc_at \in {"close_early", "aexit"}
             /\ exc = "none" <=> exc_at = ""
        /\ body_el # "absent" => \A k \in 1..Len(stdout) : stdout[k] # NoBody

\* C5 witness: a run on a page without a body has ended.
C5_Witness ==
    /\ fn = "scrape_article_with_sections"
    /\ dom.body = None
    /\ body_el = "absent"
    /\ exc = "none"
    /\ pc = "done"

\* C6: once the coroutine is left, by return or by exception, the launched
\* browser is not open.
C6_BrowserReleased ==
    pc \in {"write_extracted", "read_extracted", "filter_loop", "write_filtered", "done"}
        => browser # "open"

\* C6 witness: a run that launched the browser and then raised has ended.
C6_Witness ==
    /\ pc = "done"
    /\ exc = "raised"
    /\ exc_at = "goto"
    /\ browser = "closed"

\* C7: a child with blank text and one img with a non-empty src adds
\* exactly the image reference to the content, and if it is the only child
\* of its segment with blocks, the section is printed with the image alone.
C7_ImageIndependence ==
    /\ ( /\ fn = "scrape_article_with_sections"
         /\ pc \in {"children", "flush"}
         /\ child_i >= 1
         /\ ImageOnly(body_children[child_i]) )
       => LET before == {0} \cup {i \in H2s : i < child_i}
              h == CHOOSE i \in before : \A j \in before : j <= i
          IN  section_content =
                  Render(BlocksOf(SubSeq(body_children, h + 1, child_i - 1)))
                      \o Codes("[Image: ") \o Val(body_children[child_i].imgs[1])
                      \o Codes("]\n")
    /\ Segmented =>
         \A k \in 1..Len(Boundaries) :
           LET h == Boundaries[k] IN
             \A i \in h + 1..NextBoundary(h) - 1 :
               ( /\ ImageOnly(body_children[i])
                 /\ \A j \in (h + 1..NextBoundary(h) - 1) \ {i} :
                        Blocks(body_children[j]) = <<>> )
               => \E n \in 1..Len(sections) :
                      sections[n] = Section(Label(h),
                          Codes("[Image: ") \o Val(body_children[i].imgs[1]) \o Codes("]"))

\* C7 witness: a heading whose only content is one image has its section.
C7_Witness ==
    /\ Segmented
    /\ body_children = <<Child("h2", Codes("Setup"), <<>>),
                         Child("div", <<>>, <<Some(Codes("x.png"))>>)>>
    /\ sections = <<Section(Codes("Setup"), Codes("[Image: x.png]"))>>

\* C8: filtering the output of the filter gives the same URLs in the same
\* order.
C8_FilterIdempotent ==
    FilterDone => FilterLinks(ReadCsv(Val(filtered_csv))) = filtered_links

\* C8 witness: the filter dropped a link and kept two.
C8_Witness ==
    /\ FilterDone
    /\ Len(rows) = 3
    /\ Len(filtered_links) = 2

\* C9: the collected list is exactly the sequence of the href values of
\* the anchors that carry an href attribute.
C9_EveryHrefAttribute ==
    fn = "debug_all_links" /\ pc \in {"close", "write_extracted"}
        => all_hrefs = HrefsPresent(dom.anchors)

\* C9, amended: the collected list is exactly the sequence of the
\* non-empty href values: the anchors with no href attribute and the
\* anchors with an empty one are skipped.
C9_EveryNonEmptyHref ==
    /\ all_hrefs = HrefsNonEmpty(SubSeq(dom.anchors, 1, links_i))
    /\ fn = "debug_all_links" /\ pc \in {"close", "write_extracted"}
        => all_hrefs = HrefsNonEmpty(dom.anchors)

\* C9 witness: the page had an anchor without href, one with an empty href
\* and a link; the link alone was collected.
C9_Witness ==
    /\ pc = "write_extracted"
    /\ dom.anchors = <<None, Some(""), Some("/relative")>>
    /\ all_hrefs = <<"/relative">>

\* C10: the printed sections are exactly the boundaries with blocks, in
\* document order, each with the blocks of its own segment in document
\* order; the content after the last h2 is printed as the last section.
C10_ContentPreserved ==
    Segmented => sections = ExpectedSections

\* C10 witness: an intro, then a heading whose segment has a text and an
\* image that follows an img without src.
C10_Witness ==
    /\ Segmented
    /\ Len(sections) = 2
    /\ sections[1].heading = IntroLabel
    /\ sections[2] = Section(Codes("FAQ"), Codes("Q1\n[Image: y.png]"))

====
